---- MODULE Spec2Model ----
(***************************************************************************)
(* NadaArray (nada_data/array/nada_array.py): an ordered collection of     *)
(* secret integers with a cached set of contributing party names.          *)
(*                                                                         *)
(* One NadaArray instance is followed through its public operations.  A    *)
(* Python object is a record                                               *)
(*   [type, parties, node, items, cache]                                   *)
(* type    : the object's exact Python type                                *)
(* parties : audit.SecretInteger.parties, the list of party names          *)
(* node    : the object's own node in the expression graph (0: none)       *)
(* items   : what a list / tuple / generator / NadaArray yields             *)
(* cache   : a NadaArray operand's _parties                                *)
(***************************************************************************)
EXTENDS Integers, Sequences, FiniteSets, TLC

VARIABLES data, parties, last, ret, out, held, walk

vars == <<data, parties, last, ret, out, held, walk>>

(* ------------------------------ bounds -------------------------------- *)

\* largest length the followed instance is allowed to grow to
MaxLen == 3
\* largest number of elements of an argument list / generator / operand
MaxItems == 2
\* number of nodes of the expression graphs a traversal is followed on
MaxNodes == 3

(* ----------------------- the expression graph ------------------------- *)

PartyNames == {"A", "B"}

attrs == {"inner", "left", "right", "arg_0", "arg_1", "this"}

\* A fixed expression graph built by the DSL.  links is the set of the
\* attributes of attrs a node has, with the node each one refers to.
Node(kind, party, links) == [kind |-> kind, party |-> party, links |-> links]

NoLinks == [a \in {} |-> 0]

Graph ==
  <<Node("Input", "A", NoLinks),                                    \* 1
    Node("Input", "B", NoLinks),                                    \* 2
    Node("Input", "None", NoLinks),                                 \* 3
    Node("Literal", "None", NoLinks),                               \* 4
    Node("Addition", "None", [a \in {"left", "right"} |->
                                 IF a = "left" THEN 1 ELSE 4]),     \* 5
    Node("Addition", "None", [a \in {"left", "right"} |->
                                 IF a = "left" THEN 5 ELSE 2]),     \* 6
    Node("Reveal", "None", [a \in {"this"} |-> 3]),                 \* 7
    Node("Random", "None", NoLinks),                                \* 8
    Node("SecretInteger", "None", [a \in {"inner"} |-> 2]),         \* 9
    Node("SecretInteger", "None", [a \in {"inner"} |-> 6]),         \* 10
    Node("SecretInteger", "None", [a \in {"inner"} |-> 7]),         \* 11
    Node("PublicInteger", "None", [a \in {"inner"} |-> 1])>>        \* 12

(* ------------------------------ objects ------------------------------- *)

Value(type, ps, node) ==
  [type |-> type, parties |-> ps, node |-> node, items |-> <<>>, cache |-> {}]

Container(type, items, cache) ==
  [type |-> type, parties |-> <<>>, node |-> 0, items |-> items, cache |-> cache]

AuditedA == Value("audit.SecretInteger", <<"A">>, 0)
PlainB == Value("SecretInteger", <<>>, 9)
PlainAB == Value("SecretInteger", <<>>, 10)
PublicA == Value("PublicInteger", <<>>, 12)
PyInt == Value("int", <<>>, 0)

\* the values client code hands to the operations
Accepted == {AuditedA, PlainB, PlainAB}
Rejected == {PublicA, PyInt}
Values == Accepted \cup Rejected

SeqsUpTo(S, n) == UNION {[1..k -> S] : k \in 0..n}

(* -------------------------- module constants -------------------------- *)

secret_int_types == {"SecretInteger", "audit.SecretInteger"}

(* ------------------------ provenance resolution ----------------------- *)

RECURSIVE traverse(_)
traverse(n) ==
  IF Graph[n].kind = "Input"
  THEN IF Graph[n].party # "None" THEN {Graph[n].party} ELSE {}
  ELSE IF Graph[n].kind = "Literal"
  THEN {}
  ELSE UNION {traverse(Graph[n].links[a]) : a \in attrs \cap DOMAIN Graph[n].links}

\* module-level _gather_parties(node)
gather_parties_node(obj) == traverse(obj.node)

\* NadaArray._gather_parties(obj)
gather_parties(obj) ==
  IF obj.type = "audit.SecretInteger"
  THEN {obj.parties[i] : i \in DOMAIN obj.parties}
  ELSE IF obj.type = "SecretInteger"
  THEN gather_parties_node(obj)
  ELSE {}

(* ----------------- provenance resolution, step by step ---------------- *)

\* the order in which traverse tries the attributes
order == <<"inner", "left", "right", "arg_0", "arg_1", "this">>

\* the frames the interpreter allows: its recursion limit, which lies above
\* the depth any acyclic graph of MaxNodes nodes needs
MaxDepth == MaxNodes + 1

Nodes == 1..MaxNodes

\* left -> t1 and k -> t2, a target of 0 meaning the attribute is absent
LinkFn(t1, k, t2) ==
  [a \in (IF t1 = 0 THEN {} ELSE {"left"}) \cup (IF t2 = 0 THEN {} ELSE {k}) |->
     IF a = "left" THEN t1 ELSE t2]

\* operator nodes: a left operand and a right operand or a name attribute
OpNodes ==
  {Node("Addition", "None", LinkFn(t1, k, t2)) :
     t1 \in {0} \cup Nodes, k \in {"right", "name"}, t2 \in {0} \cup Nodes}

\* inputs and literals, with or without an inner attribute of their own
LeafNodes ==
  {Node(kp[1], kp[2], l) :
     kp \in {<<"Input", "A">>, <<"Input", "B">>, <<"Input", "None">>,
              <<"Literal", "None">>},
     l \in {NoLinks, [a \in {"inner"} |-> 1]}}

\* the graphs of MaxNodes nodes whose root, node 1, is an operator node
Graphs == {g \in [Nodes -> OpNodes \cup LeafNodes] : g[1] \in OpNodes}

\* an Input reported whether or not it has a party
visit_unchecked(party_attributes, n) == party_attributes \cup {n.party}

\* an Input visited a second time withdrawn again
visit_toggle(party_attributes, n) ==
  IF n.party = "None" THEN party_attributes
  ELSE IF n.party \in party_attributes THEN party_attributes \ {n.party}
  ELSE party_attributes \cup {n.party}

\* traverse on an Input: party_attributes afterwards
visit(party_attributes, n) ==
  IF n.party # "None" THEN party_attributes \cup {n.party} ELSE party_attributes

\* the position in order of the next attribute n has, from position at on;
\* 0 when the loop is exhausted
next_attr(n, at) ==
  LET has == {i \in at..Len(order) : order[i] \in DOMAIN n.links}
  IN IF has = {} THEN 0 ELSE CHOOSE i \in has : \A j \in has : i <= j

\* _gather_parties(node) has just called traverse(node) on the root of g
StartWalk(g) ==
  [g |-> g, stack |-> <<[n |-> 1, at |-> 1]>>, party_attributes |-> {},
   pc |-> "running", visits |-> [n \in Nodes |-> IF n = 1 THEN 1 ELSE 0]]

(* ---------------------------- list helpers ---------------------------- *)

\* list.__getitem__ / __setitem__ / __delitem__ accept -len .. len-1
InRange(s, index) == -Len(s) <= index /\ index < Len(s)

\* the 1-based position a valid Python index denotes
Pos(s, index) == IF index < 0 THEN Len(s) + index + 1 ELSE index + 1

\* list.insert(index, x): a negative index counts from the end, and the
\* result is clamped into 0 .. len
list_insert(s, index, x) ==
  LET i0 == IF index < 0 THEN index + Len(s) ELSE index
      i1 == IF i0 < 0 THEN 0 ELSE IF i0 > Len(s) THEN Len(s) ELSE i0
  IN SubSeq(s, 1, i1) \o <<x>> \o SubSeq(s, i1 + 1, Len(s))

list_del(s, index) ==
  SubSeq(s, 1, Pos(s, index) - 1) \o SubSeq(s, Pos(s, index) + 1, Len(s))

list_set(s, index, x) == [s EXCEPT ![Pos(s, index)] = x]

(* --------------------------- the operations --------------------------- *)
\* Each operation maps the instance self = [data, parties] to
\* [exc, data, parties]: the exception raised ("None": it returned) and the
\* instance's fields when control leaves the method.

Done(d, p) == [exc |-> "None", data |-> d, parties |-> p]
Raise(e, d, p) == [exc |-> e, data |-> d, parties |-> p]

\* a type test that lets every DSL integer through
check_type_loose(item) == item.type \in secret_int_types \cup {"PublicInteger"}

\* TRUE when _check_type returns, FALSE when it raises TypeError
check_type(item) == item.type \in secret_int_types

\* an assignment that drops the parties held so far
add_parties_replace(p, item) == gather_parties(item)

\* the value _add_parties assigns to self._parties
add_parties(p, item) == p \cup gather_parties(item)

\* the value _update_parties assigns to self._parties
update_parties(d) == UNION {gather_parties(d[i]) : i \in DOMAIN d}

\* an append that stores the item before it checks it
append_late_check(self, item) ==
  IF ~check_type(item)
  THEN Raise("TypeError", Append(self.data, item), self.parties)
  ELSE Done(Append(self.data, item), add_parties(self.parties, item))

append(self, item) ==
  IF ~check_type(item)
  THEN Raise("TypeError", self.data, self.parties)
  ELSE Done(Append(self.data, item), add_parties(self.parties, item))

\* an insert that refuses an index outside -len .. len
insert_bounds_checked(self, index, item) ==
  IF ~check_type(item)
  THEN Raise("TypeError", self.data, self.parties)
  ELSE IF index > Len(self.data) \/ index < -Len(self.data)
  THEN Raise("IndexError", self.data, self.parties)
  ELSE Done(list_insert(self.data, index, item), add_parties(self.parties, item))

insert(self, index, item) ==
  IF ~check_type(item)
  THEN Raise("TypeError", self.data, self.parties)
  ELSE Done(list_insert(self.data, index, item), add_parties(self.parties, item))

setitem(self, index, item) ==
  IF ~check_type(item)
  THEN Raise("TypeError", self.data, self.parties)
  ELSE IF ~InRange(self.data, index)
  THEN Raise("IndexError", self.data, self.parties)
  ELSE Done(list_set(self.data, index, item),
            update_parties(list_set(self.data, index, item)))

\* a delete that leaves the cached parties as they were
delitem_no_update(self, index) ==
  IF ~InRange(self.data, index)
  THEN Raise("IndexError", self.data, self.parties)
  ELSE Done(list_del(self.data, index), self.parties)

delitem(self, index) ==
  IF ~InRange(self.data, index)
  THEN Raise("IndexError", self.data, self.parties)
  ELSE Done(list_del(self.data, index), update_parties(list_del(self.data, index)))

\* the loop of extend over the first k items still to come: the state when
\* the loop ends or _check_type raises
RECURSIVE extend_loop(_, _)
extend_loop(self, items) ==
  IF items = <<>>
  THEN Done(self.data, self.parties)
  ELSE IF ~check_type(Head(items))
  THEN Raise("TypeError", self.data, self.parties)
  ELSE extend_loop([data |-> self.data,
                    parties |-> add_parties(self.parties, Head(items))],
                   Tail(items))

\* what iterating the argument a second time yields: a generator is
\* exhausted by the loop, the other iterables start again
second_pass(iterable) ==
  IF iterable.type = "generator" THEN <<>> ELSE iterable.items

extend(self, iterable) ==
  LET looped == extend_loop(self, iterable.items)
  IN IF looped.exc # "None"
     THEN looped
     ELSE Done(looped.data \o second_pass(iterable), looped.parties)

\* self._data.extend(self): list.extend reads the list through
\* NadaArray.__iter__ while it appends to it, so element i of the grown list
\* is element i - len of it; the list grows until memory (cap elements) is
\* used up
grown(d, cap) == [i \in 1..cap |-> d[((i - 1) % Len(d)) + 1]]

\* self.extend(self)
extend_self(self) ==
  LET looped == extend_loop(self, self.data)
  IN IF looped.exc # "None"
     THEN looped
     ELSE IF self.data = <<>>
     THEN Done(looped.data, looped.parties)
     ELSE Raise("MemoryError", grown(looped.data, MaxLen), looped.parties)

\* for item in args: self.append(item)
RECURSIVE init_loop(_, _)
init_loop(self, args) ==
  IF args = <<>>
  THEN Done(self.data, self.parties)
  ELSE LET r == append(self, Head(args))
       IN IF r.exc # "None"
          THEN r
          ELSE init_loop([data |-> r.data, parties |-> r.parties], Tail(args))

\* NadaArray(*args)
NadaArray_init(args) ==
  LET empty == [data |-> <<>>, parties |-> {}]
      args1 == IF Len(args) = 1 /\ args[1].type = "list" THEN args[1].items ELSE args
  IN IF Len(args) # 1
     THEN init_loop(empty, args)
     ELSE IF Len(args1) = 0
     THEN Raise("IndexError", <<>>, {})
     ELSE IF args1[1].type = "generator"
     THEN init_loop(empty, args1[1].items)
     ELSE init_loop(empty, args1)

\* what a call that returns no instance hands back: [exc, value]
Returned(v) == [exc |-> "None", value |-> v]
Failed(e) == [exc |-> e, value |-> "None"]

\* an indexed read that takes an index past the end for the last element
getitem_clamped(self, index) ==
  IF self.data = <<>> \/ index < -Len(self.data)
  THEN Failed("IndexError")
  ELSE IF index >= Len(self.data)
  THEN Returned(self.data[Len(self.data)])
  ELSE Returned(self.data[Pos(self.data, index)])

\* self[index]
getitem(self, index) ==
  IF ~InRange(self.data, index)
  THEN Failed("IndexError")
  ELSE Returned(self.data[Pos(self.data, index)])

\* self.get_parties(): the set object self._parties itself
get_parties(self) == Returned(self.parties)

\* whether the call bound self._parties to a new set object: _add_parties
\* and _update_parties assign a set they build, they never change the set
\* in place
rebinds(op, args, r) ==
  IF op \in {"append", "insert", "setitem", "delitem"}
  THEN r.exc = "None"
  ELSE IF op \in {"extend", "extend_self"}
  THEN args[1].items # <<>> /\ check_type(Head(args[1].items))
  ELSE FALSE

\* self + other
add(self, other) ==
  IF other.type # "NadaArray"
  THEN Raise("AttributeError", <<>>, {})
  ELSE NadaArray_init(<<Container("list", self.data \o other.items, {})>>)

(* ----------------------- serialize_input_array ------------------------ *)

DigitChar == <<"0", "1", "2", "3", "4", "5", "6", "7", "8", "9">>

\* str(i) for i >= 0, as its characters
RECURSIVE str_int(_)
str_int(i) ==
  IF i < 10 THEN <<DigitChar[i + 1]>> ELSE str_int(i \div 10) \o <<DigitChar[(i % 10) + 1]>>

\* f"{prefix}{i}": the prefix followed by the digits of i
input_name(prefix, i) == <<prefix>> \o str_int(i)

\* audit.SecretInteger(audit.Input(name, party=party)): an audited secret
\* integer wired to the input, whose parties are the input's party
audit_SecretInteger(name, party) ==
  [type |-> "audit.SecretInteger", parties |-> <<party>>, node |-> 0,
   items |-> <<>>, cache |-> {}, input |-> name]

\* a helper that numbers the inputs from 1
serialize_from_one(arr, party, prefix) ==
  NadaArray_init(<<Container("generator",
    [i \in 1..Len(arr) |-> audit_SecretInteger(input_name(prefix, i), party)], {})>>)

\* serialize_input_array(arr, party, prefix): the generator over
\* range(len(arr)) handed to NadaArray
serialize_input_array(arr, party, prefix) ==
  NadaArray_init(<<Container("generator",
    [i \in 1..Len(arr) |-> audit_SecretInteger(input_name(prefix, i - 1), party)], {})>>)

(* ------------------------- __str__ / __repr__ ------------------------- *)

\* party names whose characters matter to the ordering of the summary
StrNames == {"B", "a", "a b", "ab"}

\* a party name as the code points of its characters
chars(name) ==
  CASE name = "A" -> <<65>>
    [] name = "B" -> <<66>>
    [] name = "a" -> <<97>>
    [] name = "a b" -> <<97, 32, 98>>
    [] name = "ab" -> <<97, 98>>

\* f"'{p}'"
quote(p) == <<39>> \o chars(p) \o <<39>>

\* Python's < on strings: by code point, a proper prefix first
RECURSIVE str_lt(_, _)
str_lt(a, b) ==
  IF b = <<>> THEN FALSE
  ELSE IF a = <<>> THEN TRUE
  ELSE IF a[1] # b[1] THEN a[1] < b[1]
  ELSE str_lt(Tail(a), Tail(b))

\* sorted(S) for a set of distinct strings
RECURSIVE sorted(_)
sorted(S) ==
  IF S = {} THEN <<>>
  ELSE LET m == CHOOSE x \in S : \A y \in S \ {x} : str_lt(x, y)
       IN <<m>> \o sorted(S \ {m})

\* sep.join(strs)
RECURSIVE join(_, _)
join(sep, strs) ==
  IF strs = <<>> THEN <<>>
  ELSE IF Len(strs) = 1 THEN strs[1]
  ELSE strs[1] \o sep \o join(sep, Tail(strs))

\* str(self): the pieces of the f-string, parties_str as code points
str(self) ==
  Returned([head |-> "NadaArray | len=",
            len |-> str_int(Len(self.data)),
            mid |-> " | parties=[",
            parties_str |-> join(<<44>>, sorted({quote(p) : p \in self.parties})),
            tail |-> "]"])

(* ------------------- functions/arithmetic.py: sum --------------------- *)

\* output + e: the DSL's addition, kept as the expression it builds
plus(l, r) == [type |-> "Addition", left |-> l, right |-> r]

\* the for loop of sum_nada_array over the elements still to come
RECURSIVE sum_loop(_, _)
sum_loop(output, rest) ==
  IF rest = <<>>
  THEN Returned(output)
  ELSE IF Head(rest).type \notin secret_int_types
  THEN Failed("TypeError")
  ELSE sum_loop(plus(output, Head(rest)), Tail(rest))

\* a sum that folds from the right
RECURSIVE fold_right(_)
fold_right(items) ==
  IF Len(items) = 1 THEN Head(items) ELSE plus(Head(items), fold_right(Tail(items)))

sum_right_to_left(argument) ==
  IF argument.items = <<>>
  THEN Failed("IndexError")
  ELSE IF \E i \in 2..Len(argument.items) :
            argument.items[i].type \notin secret_int_types
  THEN Failed("TypeError")
  ELSE Returned(fold_right(argument.items))

\* a sum that checks the first element like the others
sum_checks_first(argument) ==
  IF argument.items = <<>>
  THEN Failed("IndexError")
  ELSE IF Head(argument.items).type \notin secret_int_types
  THEN Failed("TypeError")
  ELSE sum_loop(Head(argument.items), Tail(argument.items))

\* sum_nada_array(argument), argument a list, a tuple or a NadaArray
sum_nada_array(argument) ==
  IF argument.items = <<>>
  THEN Failed("IndexError")
  ELSE sum_loop(Head(argument.items), Tail(argument.items))

(* ------------------------------ actions ------------------------------- *)
\* last is the call the client made last, with the instance's fields before
\* it and the exception it raised; ret is the instance a call returned,
\* out any other value it returned.  held is the set get_parties handed
\* to the client, while the client keeps it: "alias" when it is the object
\* self._parties refers to, with the value it has now and the value it had
\* when it was returned.
\* Between two calls the client is at "idle".

Self == [data |-> data, parties |-> parties]

NoRet == [exc |-> "None", data |-> <<>>, parties |-> {}]

NoOut == "None"

NoHeld == [kind |-> "none", value |-> {}, taken |-> {}]

\* the client may make its next call
Ready == last.op \in {"idle", "get_parties"}

\* the client's set after a call that may have rebound self._parties
Keep(rebound) ==
  IF held.kind = "alias" /\ rebound THEN [held EXCEPT !.kind = "detached"] ELSE held

Idle ==
  [op |-> "idle", index |-> 0, args |-> <<>>,
   pre_data |-> <<>>, pre_parties |-> {}, exc |-> "None"]

Call(op, index, args, exc) ==
  [op |-> op, index |-> index, args |-> args,
   pre_data |-> data, pre_parties |-> parties, exc |-> exc]

Indexes == -(MaxLen + 1) .. (MaxLen + 1)

\* the other NadaArray instances an operation can be handed, as the
\* constructor leaves them
Instances ==
  {Container("NadaArray", s, update_parties(s)) : s \in SeqsUpTo(Accepted, MaxItems)}

\* the iterables extend is called with
Iterables ==
  {Container(t, s, {}) : t \in {"list", "tuple", "generator"},
                         s \in SeqsUpTo(Values, MaxItems)}
  \cup Instances

\* the argument tuples NadaArray is constructed from: the elements one by
\* one, or a single list, tuple or generator of them
ArgTuples ==
  SeqsUpTo(Values, MaxItems)
  \cup {<<Container(t, s, {})>> : t \in {"list", "tuple", "generator"},
                                   s \in SeqsUpTo(Values, MaxItems)}

\* the arguments of sum_nada_array: a list or a tuple of values, another
\* instance, or the followed instance
SumArguments ==
  {Container(t, s, {}) : t \in {"list", "tuple"}, s \in SeqsUpTo(Values, MaxItems)}
  \cup Instances
  \cup {Container("NadaArray", data, parties)}

\* the right operands of +: another instance, or a plain list
Operands ==
  Instances \cup {Container("list", s, {}) : s \in SeqsUpTo(Accepted, 1)}

\* no traversal is being followed
NoWalk ==
  [g |-> <<>>, stack |-> <<>>, party_attributes |-> {}, pc |-> "none", visits |-> <<>>]

\* a = NadaArray()
Init ==
  /\ data = <<>>
  /\ parties = {}
  /\ last = [Idle EXCEPT !.op = "init"]
  /\ ret = NoRet
  /\ out = NoOut
  /\ held = NoHeld
  /\ walk = NoWalk

\* the method leaves the instance as r says
Commit(op, index, args, r) ==
  /\ data' = r.data
  /\ parties' = r.parties
  /\ last' = Call(op, index, args, r.exc)
  /\ ret' = NoRet
  /\ out' = NoOut
  /\ held' = Keep(rebinds(op, args, r))
  /\ UNCHANGED walk

\* a = NadaArray(*args): the name is rebound only when the constructor returns
Construct ==
  \E args \in ArgTuples :
    LET r == NadaArray_init(args)
    IN /\ Ready
       /\ data' = IF r.exc = "None" THEN r.data ELSE data
       /\ parties' = IF r.exc = "None" THEN r.parties ELSE parties
       /\ last' = Call("init", 0, args, r.exc)
       /\ ret' = NoRet
       /\ out' = NoOut
       /\ held' = Keep(r.exc = "None")
       /\ UNCHANGED walk

DoAppend ==
  \E item \in Values :
    /\ Ready
    /\ Len(data) < MaxLen
    /\ Commit("append", 0, <<item>>, append(Self, item))

DoInsert ==
  \E item \in Values, index \in Indexes :
    /\ Ready
    /\ Len(data) < MaxLen
    /\ Commit("insert", index, <<item>>, insert(Self, index, item))

DoSetitem ==
  \E item \in Values, index \in Indexes :
    /\ Ready
    /\ Commit("setitem", index, <<item>>, setitem(Self, index, item))

DoDelitem ==
  \E index \in Indexes :
    /\ Ready
    /\ Commit("delitem", index, <<>>, delitem(Self, index))

DoExtend ==
  \E iterable \in Iterables :
    /\ Ready
    /\ Len(data) + Len(iterable.items) <= MaxLen
    /\ Commit("extend", 0, <<iterable>>, extend(Self, iterable))

\* a.extend(a); MaxLen stands for the memory there is
DoExtendSelf ==
  /\ Ready
  /\ 2 * Len(data) <= MaxLen
  /\ Commit("extend_self", 0, <<Container("NadaArray", data, parties)>>,
            extend_self(Self))

\* c = self + other: self is left alone, ret is the new instance
DoAdd ==
  \E other \in Operands :
    /\ last.op = "idle"
    /\ data' = data
    /\ parties' = parties
    /\ last' = Call("add", 0, <<other>>, add(Self, other).exc)
    /\ ret' = add(Self, other)
    /\ out' = NoOut
    /\ held' = held
    /\ UNCHANGED walk

\* a read-only call: the instance is left alone, out is what it returned
Answer(op, index, args, r) ==
  /\ last' = Call(op, index, args, r.exc)
  /\ out' = r.value
  /\ ret' = NoRet
  /\ UNCHANGED <<data, parties, held, walk>>

DoGetitem ==
  \E index \in Indexes :
    /\ last.op = "idle"
    /\ Answer("getitem", index, <<>>, getitem(Self, index))

\* c = serialize_input_array(arr, party, prefix)
DoSerialize ==
  \E arr \in SeqsUpTo({0, 1}, MaxItems), party \in PartyNames, prefix \in {"x", "in_"} :
    /\ last.op = "idle"
    /\ last' = Call("serialize", 0, <<arr, party, prefix>>,
                     serialize_input_array(arr, party, prefix).exc)
    /\ ret' = serialize_input_array(arr, party, prefix)
    /\ out' = NoOut
    /\ UNCHANGED <<data, parties, held, walk>>

\* str(a) / repr(a)
DoStr ==
  /\ last.op = "idle"
  /\ Answer("str", 0, <<>>, str(Self))

\* a.append(v) for an audited value of a party of StrNames
AppendNamed ==
  \E name \in StrNames :
    /\ last.op = "idle"
    /\ Len(data) < MaxLen
    /\ Commit("append", 0, <<Value("audit.SecretInteger", <<name>>, 0)>>,
              append(Self, Value("audit.SecretInteger", <<name>>, 0)))

DoSum ==
  \E argument \in SumArguments :
    /\ last.op = "idle"
    /\ Answer("sum", 0, <<argument>>, sum_nada_array(argument))

\* s = self.get_parties(): the client now holds the returned set
DoGetParties ==
  /\ last.op = "idle"
  /\ last' = Call("get_parties", 0, <<>>, get_parties(Self).exc)
  /\ out' = get_parties(Self).value
  /\ held' = [kind |-> "alias", value |-> get_parties(Self).value,
                taken |-> get_parties(Self).value]
  /\ ret' = NoRet
  /\ UNCHANGED <<data, parties, walk>>

\* s.add(p) on the set the client holds: a set object shared with the
\* instance changes for both
ClientAdd ==
  \E p \in PartyNames :
    /\ last.op = "get_parties"
    /\ held' = [held EXCEPT !.value = held.value \cup {p}]
    /\ parties' = IF held.kind = "alias" THEN parties \cup {p} ELSE parties
    /\ last' = Call("client_add", 0, <<p>>, "None")
    /\ ret' = NoRet
    /\ out' = NoOut
    /\ data' = data
    /\ UNCHANGED walk

\* the client drops what the call returned and goes on to its next call
Resume ==
  /\ last.op # "idle"
  /\ last' = Idle
  /\ ret' = NoRet
  /\ out' = NoOut
  /\ held' = NoHeld
  /\ UNCHANGED <<data, parties, walk>>

Next ==
  \/ Construct
  \/ DoAppend
  \/ DoInsert
  \/ DoSetitem
  \/ DoDelitem
  \/ DoExtend
  \/ DoExtendSelf
  \/ DoAdd
  \/ DoGetitem
  \/ DoSum
  \/ DoSerialize
  \/ DoStr
  \/ DoGetParties
  \/ ClientAdd
  \/ Resume

Spec == Init /\ [][Next]_vars

\* instances of audited values of the parties of StrNames, and their summary
NextStr ==
  \/ AppendNamed
  \/ DoStr
  \/ Resume

SpecStr == Init /\ [][NextStr]_vars

(* ------------------- the traversal, one step at a time ---------------- *)

Rest == <<data, parties, last, ret, out, held>>

Frame == walk.stack[Len(walk.stack)]

Current == walk.g[Frame.n]

Caller == SubSeq(walk.stack, 1, Len(walk.stack) - 1)

InCall == walk.pc = "running" /\ walk.stack # <<>>

InitTraverse ==
  /\ data = <<>>
  /\ parties = {}
  /\ last = Idle
  /\ ret = NoRet
  /\ out = NoOut
  /\ held = NoHeld
  /\ walk \in {StartWalk(g) : g \in Graphs}

\* isinstance(n, Input): add the party's name if there is a party; return
TraverseInput ==
  /\ InCall
  /\ Current.kind = "Input"
  /\ walk' = [walk EXCEPT !.party_attributes = visit(@, Current), !.stack = Caller]
  /\ UNCHANGED Rest

\* isinstance(n, Literal): return
TraverseLiteral ==
  /\ InCall
  /\ Current.kind = "Literal"
  /\ walk' = [walk EXCEPT !.stack = Caller]
  /\ UNCHANGED Rest

\* the loop finds the next attribute n has and calls traverse on it
TraverseDescend ==
  /\ InCall
  /\ Current.kind \notin {"Input", "Literal"}
  /\ next_attr(Current, Frame.at) # 0
  /\ Len(walk.stack) < MaxDepth
  /\ LET i == next_attr(Current, Frame.at)
         child == Current.links[order[i]]
     IN walk' = [walk EXCEPT
                   !.stack = [@ EXCEPT ![Len(@)].at = i + 1] \o <<[n |-> child, at |-> 1]>>,
                   !.visits[child] = @ + 1]
  /\ UNCHANGED Rest

\* the call would exceed the recursion limit: RecursionError propagates
\* through every frame
TraverseOverflow ==
  /\ InCall
  /\ Current.kind \notin {"Input", "Literal"}
  /\ next_attr(Current, Frame.at) # 0
  /\ Len(walk.stack) = MaxDepth
  /\ walk' = [walk EXCEPT !.stack = <<>>, !.pc = "RecursionError"]
  /\ UNCHANGED Rest

\* the loop is exhausted: traverse returns
TraverseReturn ==
  /\ InCall
  /\ Current.kind \notin {"Input", "Literal"}
  /\ next_attr(Current, Frame.at) = 0
  /\ walk' = [walk EXCEPT !.stack = Caller]
  /\ UNCHANGED Rest

\* the outermost traverse has returned: return party_attributes
GatherReturn ==
  /\ walk.pc = "running"
  /\ walk.stack = <<>>
  /\ walk' = [walk EXCEPT !.pc = "returned"]
  /\ UNCHANGED Rest

NextTraverse ==
  \/ TraverseInput
  \/ TraverseLiteral
  \/ TraverseDescend
  \/ TraverseOverflow
  \/ TraverseReturn
  \/ GatherReturn

\* the interpreter keeps executing a call that has a next step
SpecTraverse == InitTraverse /\ [][NextTraverse]_vars /\ WF_vars(NextTraverse)

(* ------------------------------ claims -------------------------------- *)

\* the union of the resolved parties of the elements of s
Resolved(s) == UNION {gather_parties(s[i]) : i \in DOMAIN s}

AllAccepted(s) == \A i \in DOMAIN s : s[i] \in Accepted

\* the elements a constructor call was given, for the three supported forms
Elements(args) ==
  IF Len(args) = 1 /\ args[1].type \in {"list", "generator"}
  THEN args[1].items
  ELSE args

Mutators == {"init", "append", "extend", "insert", "setitem", "delitem"}

\* C1: when a mutating operation (construction, append, extend, insert,
\* setitem, delitem) has completed, get_parties() is exactly the union of
\* the resolved parties of the elements now in the sequence.
C1_ProvenanceConsistency ==
  (last.op \in Mutators /\ last.exc = "None") => parties = Resolved(data)

\* C2: extend with a batch that holds an element of no accepted variant
\* raises TypeError and leaves the sequence and the cached party set as
\* they were before the call.
C2_ExtendAllOrNothing ==
  (last.op = "extend" /\ ~AllAccepted(last.args[1].items))
    => /\ last.exc = "TypeError"
       /\ data = last.pre_data
       /\ parties = last.pre_parties

\* C3: in every reachable state every element of the sequence, and of a
\* sequence produced by concatenation, is of type SecretInteger or
\* audit.SecretInteger.
C3_Homogeneity ==
  /\ \A i \in DOMAIN data : data[i].type \in secret_int_types
  /\ \A i \in DOMAIN ret.data : ret.data[i].type \in secret_int_types

\* a rejected batch was offered to an instance that already holds elements
C3_Witness ==
  /\ last.op = "extend"
  /\ last.exc = "TypeError"
  /\ Len(data) >= 2

\* C4: append, insert and setitem of a value of no accepted variant raise
\* TypeError with the sequence and the cached party set unchanged.
C4_RejectLeavesUnchanged ==
  (last.op \in {"append", "insert", "setitem"} /\ last.args[1] \in Rejected)
    => /\ last.exc = "TypeError"
       /\ data = last.pre_data
       /\ parties = last.pre_parties

\* a rejected value was appended to an instance that holds elements
C4_Witness ==
  /\ last.op = "append"
  /\ last.args[1] \in Rejected
  /\ last.exc = "TypeError"
  /\ Len(data) >= 1


\* C5: for instances a and b, a + b raises nothing and returns a new
\* instance holding a's sequence followed by b's, so that its length is
\* len(a) + len(b) and its parties are parties(a) \cup parties(b).
C5_Concatenation ==
  (last.op = "add" /\ last.args[1].type = "NadaArray")
    => /\ last.exc = "None"
       /\ ret.data = data \o last.args[1].items
       /\ Len(ret.data) = Len(data) + Len(last.args[1].items)
       /\ ret.parties = parties \cup last.args[1].cache

\* C6: constructing from n >= 0 accepted elements, given one by one, as one
\* list or as one generator, yields an instance holding exactly those
\* elements in order, with the union of their resolved parties.
C6_Construction ==
  (/\ last.op = "init"
   /\ ~(Len(last.args) = 1 /\ last.args[1].type = "tuple")
   /\ AllAccepted(Elements(last.args)))
    => /\ last.exc = "None"
       /\ data = Elements(last.args)
       /\ parties = Resolved(Elements(last.args))

\* C7 as stated: insert of an accepted item at an index outside
\* -len .. len raises IndexError and changes nothing, and index = len
\* appends the item.
C7_InsertBoundsError ==
  (last.op = "insert" /\ last.args[1] \in Accepted)
    => /\ (last.index > Len(last.pre_data) \/ last.index < -Len(last.pre_data))
            => /\ last.exc = "IndexError"
               /\ data = last.pre_data
               /\ parties = last.pre_parties
       /\ last.index = Len(last.pre_data) => data = Append(last.pre_data, last.args[1])

\* the position (from 1) at which insert places the item: an index past the
\* end is taken as the end, one before the start as the start
InsertedAt(n, index) ==
  IF index >= n THEN n + 1
  ELSE IF index >= 0 THEN index + 1
  ELSE IF index >= -n THEN n + index + 1
  ELSE 1

\* C7, amended: insert of an accepted item never raises IndexError.  The
\* item is placed at the index clamped into the sequence (index >= len
\* appends it, index < -len puts it first, a negative index counts from the
\* end), the other elements keep their order, and the party set becomes
\* old \cup resolve(item).
C7_InsertClamps ==
  (last.op = "insert" /\ last.args[1] \in Accepted)
    => LET n == Len(last.pre_data)
           k == InsertedAt(n, last.index)
       IN /\ last.exc = "None"
          /\ Len(data) = n + 1
          /\ data[k] = last.args[1]
          /\ \A j \in 1..n : data[IF j < k THEN j ELSE j + 1] = last.pre_data[j]
          /\ parties = last.pre_parties \cup gather_parties(last.args[1])

\* an accepted item was inserted at an index past the end of a non-empty
\* sequence
C7_Witness ==
  /\ last.op = "insert"
  /\ last.args[1] \in Accepted
  /\ Len(last.pre_data) >= 1
  /\ last.index > Len(last.pre_data)
  /\ last.exc = "None"
  /\ Len(data) = Len(last.pre_data) + 1

\* C8: after delitem, or setitem of an accepted item, a party is in the
\* party set if and only if an element still in the sequence resolves to it.
C8_RemovalReflected ==
  (last.op \in {"delitem", "setitem"} /\ last.exc = "None")
    => \A p \in PartyNames \cup parties :
         p \in parties <=> \E i \in DOMAIN data : p \in gather_parties(data[i])

\* two elements from A and one from B, the one from B deleted: B is gone
C8_Witness ==
  /\ last.op = "delitem"
  /\ last.exc = "None"
  /\ Len(last.pre_data) = 3
  /\ Cardinality({i \in 1..3 : gather_parties(last.pre_data[i]) = {"A"}}) = 2
  /\ Cardinality({i \in 1..3 : gather_parties(last.pre_data[i]) = {"B"}}) = 1
  /\ last.pre_parties = {"A", "B"}
  /\ parties = {"A"}

\* C9: extend with a list, tuple, NadaArray or generator of accepted
\* elements appends all of them, in order, to the end of the sequence.
C9_ExtendAppendsAll ==
  (last.op = "extend" /\ AllAccepted(last.args[1].items))
    => /\ last.exc = "None"
       /\ data = last.pre_data \o last.args[1].items
       /\ Len(data) = Len(last.pre_data) + Len(last.args[1].items)

\* C10: append of an accepted value v puts v last, keeps the earlier
\* elements in place, lengthens the sequence by one and makes the party set
\* old \cup resolve(v).
C10_AppendIncremental ==
  (last.op = "append" /\ last.args[1] \in Accepted)
    => /\ last.exc = "None"
       /\ Len(data) = Len(last.pre_data) + 1
       /\ data[Len(data)] = last.args[1]
       /\ SubSeq(data, 1, Len(last.pre_data)) = last.pre_data
       /\ parties = last.pre_parties \cup gather_parties(last.args[1])

\* a value bringing a new party was appended to a non-empty sequence
C10_Witness ==
  /\ last.op = "append"
  /\ last.args[1] \in Accepted
  /\ Len(last.pre_data) >= 1
  /\ last.pre_parties # {}
  /\ parties # last.pre_parties
  /\ Len(data) = Len(last.pre_data) + 1

\* an index outside -len .. len-1 of a sequence of length n
OutOfBounds(n, index) == index >= n \/ index < -n

\* C11: setitem of an accepted item, delitem and getitem at an index out of
\* bounds raise IndexError and leave the sequence and the cached party set
\* unchanged.
C11_IndexErrorLeavesUnchanged ==
  (/\ last.op \in {"setitem", "delitem", "getitem"}
   /\ last.op = "setitem" => last.args[1] \in Accepted
   /\ OutOfBounds(Len(last.pre_data), last.index))
    => /\ last.exc = "IndexError"
       /\ data = last.pre_data
       /\ parties = last.pre_parties

\* an element was read one past the end of a non-empty sequence
C11_Witness ==
  /\ last.op = "getitem"
  /\ Len(last.pre_data) >= 1
  /\ last.index = Len(last.pre_data)
  /\ last.exc = "IndexError"

\* C12: the set get_parties returned and the instance's cache are
\* independent: a change the client makes to the returned set leaves what
\* the instance reports unchanged, and a later mutation of the instance
\* leaves the returned set as it was when it was returned.
C12_SnapshotIndependent ==
  /\ last.op = "client_add" => parties = last.pre_parties
  /\ (held.kind # "none" /\ last.op \in Mutators) => held.value = held.taken

\* the operands of an expression built by +, from left to right
RECURSIVE Leaves(_)
Leaves(t) ==
  IF t.type = "Addition" THEN Leaves(t.left) \o Leaves(t.right) ELSE <<t>>

\* every + of the expression has a single value as its right operand
RECURSIVE LeftDeep(_)
LeftDeep(t) ==
  t.type = "Addition" => (t.right.type # "Addition" /\ LeftDeep(t.left))

\* C13: for a non-empty list, tuple or NadaArray s1 .. sn of accepted
\* values, sum returns ((s1 + s2) + ...) + sn: every + has the running total
\* on its left and the next element on its right, each element is used
\* once and in order, and for n = 1 the result is s1 itself.
C13_SumLeftFold ==
  (/\ last.op = "sum"
   /\ last.args[1].items # <<>>
   /\ AllAccepted(last.args[1].items))
    => /\ last.exc = "None"
       /\ Leaves(out) = last.args[1].items
       /\ LeftDeep(out)
       /\ Len(last.args[1].items) = 1 => out = last.args[1].items[1]

\* three different accepted values were summed
C13_Witness ==
  /\ last.op = "sum"
  /\ last.exc = "None"
  /\ Len(last.args[1].items) = 3
  /\ Cardinality({last.args[1].items[i] : i \in 1..3}) = 3
  /\ out.type = "Addition"

\* C14: sum raises IndexError on an empty input; on a non-empty input it
\* raises TypeError exactly when an element after the first is of no
\* accepted type; the first element is never checked, and a one-element
\* input is returned as it is.
C14_SumValidation ==
  last.op = "sum" =>
    LET items == last.args[1].items
    IN /\ items = <<>> => last.exc = "IndexError"
       /\ items # <<>> =>
            /\ last.exc \in {"None", "TypeError"}
            /\ last.exc = "TypeError" <=>
                 \E i \in 2..Len(items) : items[i] \notin Accepted
       /\ Len(items) = 1 => (last.exc = "None" /\ out = items[1])

\* a rejected first element was summed with an accepted one
C14_Witness ==
  /\ last.op = "sum"
  /\ Len(last.args[1].items) = 2
  /\ last.args[1].items[1] \in Rejected
  /\ last.args[1].items[2] \in Accepted
  /\ last.exc = "None"
  /\ out.type = "Addition"

\* C19: a.extend(a) returns for every instance a, leaving a with its
\* elements followed by one copy of them and its party set unchanged.
C19_ExtendSelfDoubles ==
  last.op = "extend_self"
    => /\ last.exc = "None"
       /\ data = last.pre_data \o last.pre_data
       /\ parties = last.pre_parties

\* C17: serialize_input_array(arr, P, prefix) returns an instance of
\* len(arr) audit.SecretInteger elements, the k-th (from 0) wired to the
\* input named prefix followed by k and owned by P; for a non-empty arr the
\* party set is {P.name}.
C17_SerializeInputArray ==
  last.op = "serialize" =>
    LET arr == last.args[1]
        P == last.args[2]
        prefix == last.args[3]
    IN /\ last.exc = "None"
       /\ Len(ret.data) = Len(arr)
       /\ \A k \in 1..Len(arr) :
            /\ ret.data[k].type = "audit.SecretInteger"
            /\ ret.data[k].input = <<prefix, DigitChar[k]>>
            /\ ret.data[k].parties = <<P>>
       /\ arr # <<>> => ret.parties = {P}
       /\ arr = <<>> => ret.parties = {}

\* two inputs were built for party B under the prefix x: x0 and x1
C17_Witness ==
  /\ last.op = "serialize"
  /\ last.args[2] = "B"
  /\ last.args[3] = "x"
  /\ Len(ret.data) = 2
  /\ ret.data[1].input = <<"x", "0">>
  /\ ret.data[2].input = <<"x", "1">>
  /\ ret.parties = {"B"}

\* C16: the summary gives the current number of elements and lists every
\* party name of the set once, single-quoted, comma-separated without a
\* trailing comma, in lexicographic order of the names.
C16_SummarySorted ==
  last.op = "str" =>
    LET names == sorted({chars(p) : p \in parties})
    IN /\ out.len = str_int(Len(data))
       /\ out.parties_str =
            join(<<44>>, [i \in 1..Len(names) |-> <<39>> \o names[i] \o <<39>>])

\* the nodes traverse goes on to from node n of g: none from an Input or a
\* Literal, else the targets of the link roles n exposes
followed(g, n) ==
  IF g[n].kind \in {"Input", "Literal"} THEN {}
  ELSE {g[n].links[a] : a \in attrs \cap DOMAIN g[n].links}

\* S and what is reached from S in at most k links
RECURSIVE reach_from(_, _, _)
reach_from(g, S, k) ==
  IF k = 0 THEN S
  ELSE reach_from(g, S \cup UNION {followed(g, n) : n \in S}, k - 1)

Reach(g) == reach_from(g, {1}, MaxNodes)

\* the names of the parties owning the Input nodes reachable from the root
Owners(g) ==
  {g[n].party : n \in {m \in Reach(g) : g[m].kind = "Input" /\ g[m].party # "None"}}

\* a cycle is reachable from the root through the link roles
Cyclic(g) ==
  \E n \in Reach(g) : n \in reach_from(g, followed(g, n), MaxNodes)

\* C15: provenance resolution returns exactly the names of the parties
\* owning the Input nodes reachable from the root through the link roles of
\* operator nodes; an Input without a party and a Literal add nothing and
\* are not descended into; a root exposing no link role gives the empty set
\* and no error.
C15_ProvenanceResolution ==
  /\ walk.pc = "returned" => walk.party_attributes = Owners(walk.g)
  /\ walk.pc = "RecursionError" => followed(walk.g, 1) # {}

\* the root's left operand is an Input of A that has an inner attribute of
\* its own, its name attribute refers to an Input of B: only A is returned
C15_Witness ==
  /\ walk.pc = "returned"
  /\ walk.party_attributes = {"A"}
  /\ DOMAIN walk.g[1].links = {"left", "name"}
  /\ walk.g[walk.g[1].links["left"]].kind = "Input"
  /\ "inner" \in DOMAIN walk.g[walk.g[1].links["left"]].links
  /\ walk.g[walk.g[1].links["name"]].party = "B"

\* C18: on an acyclic graph the resolution returns; where a node is
\* traversed more than once the returned set is the one of a single visit of
\* each node; with a cycle reachable through the link roles it never returns
\* a set.
C18_Termination ==
  /\ (walk.pc = "running" /\ ~Cyclic(walk.g)) ~> (walk.pc = "returned")
  /\ [](walk.pc = "returned" /\ (\E n \in Nodes : walk.visits[n] > 1)
          => walk.party_attributes = Owners(walk.g))
  /\ [](walk.pc = "returned" => ~Cyclic(walk.g))

\* an Input of a party was traversed four times, through two shared levels
C18_Witness ==
  /\ walk.pc = "returned"
  /\ ~Cyclic(walk.g)
  /\ \E n \in Nodes :
       /\ walk.visits[n] = 4
       /\ walk.g[n].kind = "Input"
       /\ walk.party_attributes = {walk.g[n].party}

====
